---- MODULE Spec2Model ----
(***************************************************************************)
(* Orchestration and realtime distribution core of Hyphae-OS-Backend:      *)
(*   - Mycocore, the safety coordinator (app/agents/mycocore_agent.py)     *)
(*   - BaseChainExecutor.run and AgentChainExecutor.execute_step           *)
(*     (app/core/base_chain_executor.py, app/core/executors.py)            *)
(*   - ConnectionManager (app/core/utils/websocket_manager.py) and the     *)
(*     websocket route that drives it (app/api/routes/agent_stream_routes) *)
(*   - RateLimiter.check_rate_limit (app/core/utils/rate_limiter.py) with   *)
(*     the RedisCache object it uses (app/core/cache/redis_cache.py)       *)
(*                                                                         *)
(* Python strings are sequences of string tokens, so that str.lower() and  *)
(* f-string concatenation are computed and not assumed.  Python dicts are  *)
(* records; a key a dict does not have is a field the record does not      *)
(* have.  The emoji that prefix the source's message literals are left     *)
(* out of the tokens.                                                      *)
(***************************************************************************)
EXTENDS Naturals, Sequences, FiniteSets, TLC

VARIABLES
    \* ---- Mycocore ----
    safe_mode,      \* Mycocore._safe_mode
    lastOp,         \* history variable: the last call that wrote _safe_mode
    \* ---- the chain executor instance in use and the run it executes ----
    history,        \* BaseChainExecutor.history of the instance
    chain,          \* argument of the run in progress
    idx,            \* 1-based position of `for step in chain`
    pc,             \* where the run is
    cur,            \* history variable: what the step in progress has done so far
    returned,       \* what the latest run handed to its caller
    \* ---- history variables of the run ----
    base,           \* Len(history) when the run was entered
    calls,          \* the positions execute_step was invoked for, in call order
    log,            \* one record per history entry: what producing it did
    lastGate,       \* lastOp as the newest entry's step found it at its safe-mode check
    haltedAll,      \* safe mode has been on since the run was entered
    \* ---- ConnectionManager ----
    active_connections,   \* client id -> websocket
    connection_stats,     \* client id -> stats dict
    heartbeat_tasks,      \* client id -> task
    wsClient,       \* path parameter client_id of each websocket's route
    wsState,        \* transport: "new", "open", "closed"
    routePc,        \* where each websocket's route coroutine is
    taskPc,         \* where each heartbeat task is
    taskCancel,     \* Task.cancel() has been called on the task
    callWs,         \* per coroutine: the transport its pending await is on
    closeRaised,    \* history variable: close() raised in the latest disconnect
    nextWs,         \* websockets handed out so far
    \* ---- the broadcast call the model follows ----
    bPc,            \* where the broadcast coroutine is
    bExclude,       \* its exclude argument
    bStart,         \* active_connections as its for loop found it
    bSeen,          \* the client ids its iterator has yielded and it sent to
    disconnected,   \* its list `disconnected`, the part not yet swept
    bCur,           \* the client id its pending await is for
    bWs,            \* the transport its pending await is on
    bErr,           \* the exception that left broadcast, if one did
    bTry,           \* history variable: outcome of its send to each transport
    \* ---- the caller of get_connection_stats ----
    stats_returned, \* what the latest call returned, as it was at the return
    \* ---- RateLimiter and the counter store behind self.cache ----
    rl_counters,    \* store: key -> count
    rl_expiry,      \* store: key -> seconds to live, for the keys that expire
    rl_calls,       \* history variable: key -> check_rate_limit calls made
    rl_sent,        \* history variable: per sender and (identity, method, path),
                    \* the calls of the window that the store counted
    rl_last,        \* the latest check_rate_limit call and what it returned
    rl_store,       \* the methods of the object self.cache refers to
    \* ---- the Mycocore class, its instance and the threads that use it ----
    instance,       \* Mycocore._instance
    lock_owner,     \* the thread holding Mycocore._lock, 0 when it is free
    system_flags,   \* Mycocore._system_flags
    active_agents,  \* Mycocore._active_agents
    tpc,            \* per thread: where its call of Mycocore() is
    tref,           \* per thread: what its latest Mycocore() returned
    initialised,    \* history variable: _init_mycocore calls run, 2 for two or more
    agents_returned,\* the set the latest get_active_agents handed to its caller
    op_last,        \* the latest step of a thread on the class or the instance
    \* ---- the safe-mode toggle route ----
    tg_pc,          \* per toggle_safe_mode request: where it is and what it read
    \* ---- concurrent check_rate_limit calls for one key ----
    b_pc,           \* per coroutine: the store round trip its call awaits
    b_cur,          \* per coroutine: `current`, what its incr returned
    b_made,         \* history variable: calls that have returned
    b_allowed,      \* history variable: calls that returned allowed = True
    b_ret,          \* per coroutine: (is_allowed, remaining, reset_in) of its call
    mw_out          \* history variable: the latest step of a request in
                    \* rate_limit_middleware after its check_rate_limit call

chainVars == <<safe_mode, lastOp, history, chain, idx, pc, cur, returned,
               base, calls, log, lastGate, haltedAll>>
connVars == <<active_connections, connection_stats, heartbeat_tasks, wsClient,
              wsState, routePc, taskPc, taskCancel, callWs, closeRaised,
              nextWs>>
bcastVars == <<bPc, bExclude, bStart, bSeen, disconnected, bCur, bWs, bErr, bTry>>
viewVars == <<stats_returned>>
rateVars == <<rl_counters, rl_expiry, rl_calls, rl_sent, rl_last, rl_store>>
mycoVars == <<instance, lock_owner, system_flags, active_agents, tpc, tref,
              initialised, agents_returned, op_last>>
chainRest == <<history, chain, idx, pc, cur, returned, base, calls, log, lastGate,
               haltedAll>>
toggleVars == <<tg_pc>>
burstVars == <<b_pc, b_cur, b_made, b_allowed, b_ret, mw_out>>
notChain == <<connVars, bcastVars, viewVars, rateVars, mycoVars, toggleVars, burstVars>>
notConn == <<chainVars, bcastVars, viewVars, rateVars, mycoVars, toggleVars, burstVars>>
notBcast == <<chainVars, viewVars, rateVars, mycoVars, toggleVars, burstVars>>
notRate == <<chainVars, connVars, bcastVars, viewVars, mycoVars, toggleVars, burstVars>>
notMyco == <<chainRest, connVars, bcastVars, viewVars, rateVars, toggleVars, burstVars>>
notToggle == <<chainRest, connVars, bcastVars, viewVars, rateVars, mycoVars, burstVars>>
notBurst == <<chainVars, connVars, bcastVars, viewVars, mycoVars, toggleVars>>
vars == <<chainVars, connVars, bcastVars, viewVars, rateVars, mycoVars, toggleVars,
          burstVars>>

(***************************************************************************)
(* Bounds of the model                                                     *)
(***************************************************************************)
MaxChainLen == 2
MaxHistory == 3
MaxSockets == 2
MaxCalls == 3
MaxThreads == 2
MaxToggles == 4
MaxCoroutines == 2
MaxBurst == 31

(***************************************************************************)
(* Strings                                                                 *)
(***************************************************************************)
UpperToLower ==
    ("R" :> "r") @@ ("B" :> "b") @@ ("G" :> "g") @@ ("N" :> "n") @@ ("S" :> "s")

\* str.lower(), character by character
lower(s) ==
    [i \in DOMAIN s |-> IF s[i] \in DOMAIN UpperToLower THEN UpperToLower[s[i]] ELSE s[i]]

\* dict.get(key): None when the key is missing
None == <<"None">>
get(d, key) == IF key \in DOMAIN d THEN d[key] ELSE None

(***************************************************************************)
(* Mycocore                                                                *)
(***************************************************************************)
is_safe_inverted == safe_mode

\* is_safe(): True when the system is NOT in safe mode
is_safe == ~safe_mode

enable_safe_mode ==
    /\ safe_mode' = TRUE
    /\ lastOp' = "enable"

disable_safe_mode_noop ==
    /\ safe_mode' = safe_mode
    /\ lastOp' = "disable"

disable_safe_mode ==
    /\ safe_mode' = FALSE
    /\ lastOp' = "disable"

(***************************************************************************)
(* Agent registry and the handlers                                         *)
(***************************************************************************)
AGENT_REGISTRY ==
    (<<"n","e","u","r","o","w","e","a","v","e">> :>
        [name |-> <<"N","e","u","r","o","w","e","a","v","e">>,
         offline |-> <<"System is locked. Safe mode enabled.">>])
    @@ (<<"r","o","o","t","b","l","o","o","m">> :>
        [name |-> <<"R","o","o","t","b","l","o","o","m">>,
         offline |-> <<"Rootbloom is offline. Safe mode is active.">>])
    @@ (<<"s","p","o","r","e","l","i","n","k">> :>
        [name |-> <<"S","p","o","r","e","l","i","n","k">>,
         offline |-> <<"Sporelink disabled in safe mode.">>])

\* AGENT_REGISTRY.get(key)
registry_has(key) == key \in DOMAIN AGENT_REGISTRY

\* what the model call inside handle_prompt can hand back
Replies == {<<"reply-1">>, <<"reply-2">>}
HandlerErrors == {[type |-> "RuntimeError", msg |-> <<"model call failed">>]}

\* the exception None.lower() raises
NoneLowerError ==
    [type |-> "AttributeError", msg |-> <<"'NoneType' object has no attribute 'lower'">>]


CaughtOnlyRuntimeError(e) == e.type = "RuntimeError"

CaughtByExceptException(e) == e.type \in {"AttributeError", "RuntimeError", "KeyError"}

(***************************************************************************)
(* Inputs: chains of steps                                                 *)
(***************************************************************************)
Prompts == {<<"hi">>}
Steps ==
    [agent : { <<"R","o","o","t","B","l","o","o","m">>, <<"G","h","o","s","t">> },
     prompt : Prompts] \cup [prompt : Prompts]
Chains == UNION {[1..n -> Steps] : n \in 0..MaxChainLen}

HaltOutput == <<"System in safe mode.">>
UnknownOutput(agent_name) == <<"Unknown agent: ">> \o agent_name
ErrorOutput(e) == <<"Error: ">> \o e.msg

NoReturn == [done |-> FALSE, raised |-> FALSE, live |-> FALSE, n |-> 0, snap |-> <<>>]
NoCur == [gate |-> "init", operational |-> FALSE, looked |-> FALSE, asked |-> FALSE,
          called |-> FALSE, raised |-> FALSE, reply |-> <<>>, key |-> <<>>]

(***************************************************************************)
(* BaseChainExecutor / AgentChainExecutor                                  *)
(***************************************************************************)
\* AgentChainExecutor(): a new instance, with its own empty history; the caller
\* lets go of the previous instance and of the list it returned
NewExecutor ==
    /\ pc = "idle"
    /\ history' = <<>>
    /\ log' = <<>>
    /\ returned' = NoReturn
    /\ lastGate' = "none"
    /\ UNCHANGED <<safe_mode, lastOp, chain, idx, pc, cur, base, calls, haltedAll>>
    /\ UNCHANGED notChain

\* run(chain) is entered
RunStart ==
    /\ pc = "idle"
    /\ \E ch \in Chains :
        /\ Len(history) + Len(ch) <= MaxHistory
        /\ chain' = ch
        /\ pc' = IF ch = <<>> THEN "ret" ELSE "step"
    /\ idx' = 1
    /\ base' = Len(history)
    /\ calls' = <<>>
    /\ haltedAll' = safe_mode
    /\ cur' = NoCur
    /\ UNCHANGED <<safe_mode, lastOp, history, returned, log, lastGate>>
    /\ UNCHANGED notChain

\* self.history.append(entry), then the loop moves on
AppendEntry(entry, rec) ==
    /\ history' = Append(history, entry)
    /\ log' = Append(log, [i |-> idx, step |-> chain[idx],
                            operational |-> rec.operational, looked |-> rec.looked,
                            asked |-> rec.asked, called |-> rec.called,
                            raised |-> rec.raised, reply |-> rec.reply])
    /\ lastGate' = rec.gate
    /\ idx' = idx + 1
    /\ pc' = IF idx = Len(chain) THEN "ret" ELSE "step"
    /\ cur' = NoCur
    /\ UNCHANGED returned

RunExcept_Propagate(e, rec) ==
    /\ pc' = "idle"
    /\ returned' = [done |-> TRUE, raised |-> TRUE, live |-> FALSE,
                    n |-> Len(chain), snap |-> <<>>]
    /\ cur' = NoCur
    /\ UNCHANGED <<history, log, lastGate, idx>>

\* run's `except Exception as e`: the entry {"step", "error"}; anything else
\* leaves run
RunExcept(e, rec) ==
    IF CaughtByExceptException(e)
    THEN AppendEntry([step |-> chain[idx], error |-> e.msg], rec)
    ELSE /\ pc' = "idle"
         /\ returned' = [done |-> TRUE, raised |-> TRUE, live |-> FALSE,
                         n |-> Len(chain), snap |-> <<>>]
         /\ cur' = NoCur
         /\ UNCHANGED <<history, log, lastGate, idx>>

LookupKey_raw(agent_name) == agent_name

\* the registry key execute_step looks up
LookupKey(agent_name) == lower(agent_name)

\* execute_step up to the call of agent.ask
ExecuteStep ==
    /\ pc = "step"
    /\ calls' = Append(calls, idx)
    /\ LET step == chain[idx]
           agent_name == get(step, "agent")
           prompt == get(step, "prompt")
           rec == [NoCur EXCEPT !.gate = lastOp, !.operational = is_safe]
       IN  IF ~is_safe
           THEN AppendEntry([agent |-> <<"mycocore">>, input |-> prompt,
                             output |-> HaltOutput], rec)
           ELSE IF agent_name = None
           THEN RunExcept(NoneLowerError, rec)
           ELSE IF ~registry_has(LookupKey(agent_name))
           THEN AppendEntry([agent |-> agent_name, input |-> prompt,
                             output |-> UnknownOutput(agent_name)],
                            [rec EXCEPT !.looked = TRUE])
           ELSE /\ pc' = "ask"
                /\ cur' = [rec EXCEPT !.looked = TRUE, !.key = LookupKey(agent_name)]
                /\ UNCHANGED <<history, log, lastGate, idx, returned>>
    /\ UNCHANGED <<safe_mode, lastOp, chain, base, haltedAll>>
    /\ UNCHANGED notChain

\* agent.ask(prompt): the handler's own safe-mode check
AgentAsk ==
    /\ pc = "ask"
    /\ LET agent == AGENT_REGISTRY[cur.key]
           rec == [cur EXCEPT !.asked = TRUE]
       IN  IF ~is_safe
           THEN AppendEntry([agent |-> agent.name, input |-> get(chain[idx], "prompt"),
                             output |-> agent.offline], rec)
           ELSE /\ pc' = "model"
                /\ cur' = [rec EXCEPT !.called = TRUE]
                /\ UNCHANGED <<history, log, lastGate, idx, returned>>
    /\ UNCHANGED <<safe_mode, lastOp, chain, base, calls, haltedAll>>
    /\ UNCHANGED notChain

\* handle_prompt calls the model (self.gpt.ask) and returns its reply;
\* execute_step returns the entry
HandlePromptReturn ==
    /\ pc = "model"
    /\ \E r \in Replies :
        AppendEntry([agent |-> AGENT_REGISTRY[cur.key].name,
                     input |-> get(chain[idx], "prompt"), output |-> r],
                    [cur EXCEPT !.reply = r])
    /\ UNCHANGED <<safe_mode, lastOp, chain, base, calls, haltedAll>>
    /\ UNCHANGED notChain

StepExcept_NoCatch(e, rec) == RunExcept(e, rec)

\* execute_step's `except Exception as e` around agent.ask
StepExcept(e, rec) ==
    IF CaughtByExceptException(e)
    THEN AppendEntry([agent |-> get(chain[idx], "agent"),
                      input |-> get(chain[idx], "prompt"),
                      output |-> ErrorOutput(e)], rec)
    ELSE RunExcept(e, rec)

\* handle_prompt raises
HandlePromptRaise ==
    /\ pc = "model"
    /\ \E e \in HandlerErrors : StepExcept(e, [cur EXCEPT !.raised = TRUE])
    /\ UNCHANGED <<safe_mode, lastOp, chain, base, calls, haltedAll>>
    /\ UNCHANGED notChain

\* return self.history: the caller gets the instance's list itself
RunReturn ==
    /\ pc = "ret"
    /\ returned' = [done |-> TRUE, raised |-> FALSE, live |-> TRUE,
                    n |-> Len(chain), snap |-> history]
    /\ pc' = "idle"
    /\ chain' = <<>>
    /\ idx' = 1
    /\ base' = 0
    /\ calls' = <<>>
    /\ haltedAll' = FALSE
    /\ UNCHANGED <<safe_mode, lastOp, history, cur, log, lastGate>>
    /\ UNCHANGED notChain

EnableSafeMode ==
    /\ enable_safe_mode
    /\ UNCHANGED <<history, chain, idx, pc, cur, returned, base, calls, log, lastGate,
                   haltedAll>>
    /\ UNCHANGED notChain

DisableSafeMode ==
    /\ disable_safe_mode
    /\ haltedAll' = FALSE
    /\ UNCHANGED <<history, chain, idx, pc, cur, returned, base, calls, log, lastGate>>
    /\ UNCHANGED notChain

(***************************************************************************)
(* ConnectionManager and the websocket route                               *)
(*                                                                         *)
(* Every websocket is served by one route coroutine; an accepted one also  *)
(* gets one heartbeat task.  Both are named by the websocket's number.     *)
(* An action runs a coroutine from one await to the next.                  *)
(***************************************************************************)
Clients == {"a", "b"}
Sockets == 1..MaxSockets
Procs == {"route", "task"} \X Sockets

\* dict[k] = v and del dict[k]
Put(d, k, v) == [x \in DOMAIN d \cup {k} |-> IF x = k THEN v ELSE d[x]]
Remove(d, k) == [x \in DOMAIN d \ {k} |-> d[x]]
EmptyDict == [x \in {} |-> 0]

\* the stats dict connect() stores
NewStats(w) ==
    [connected_at |-> w, messages_received |-> 0, messages_sent |-> 0,
     last_heartbeat |-> "connect"]

ProcPc(p) == IF p[1] = "route" THEN routePc[p[2]] ELSE taskPc[p[2]]

SetPc(p, v) ==
    IF p[1] = "route"
    THEN routePc' = [routePc EXCEPT ![p[2]] = v] /\ UNCHANGED taskPc
    ELSE taskPc' = [taskPc EXCEPT ![p[2]] = v] /\ UNCHANGED routePc

disconnect_enter_unguarded(p, c) ==
    /\ SetPc(p, "raised")
    /\ UNCHANGED callWs

\* disconnect(client_id) up to `await self.active_connections[client_id].close()`;
\* returns at once when the id is not in active_connections.  The coroutine that
\* called it then ends: "returned" after a call that found nothing, "cleaned"
\* after one that ran the finally block, "raised" after one that raised.
disconnect_enter(p, c) ==
    IF c \in DOMAIN active_connections
    THEN /\ callWs' = [callWs EXCEPT ![p] = active_connections[c]]
         /\ SetPc(p, "closing")
    ELSE /\ SetPc(p, "returned")
         /\ UNCHANGED callWs

tasks_to_cancel_none(c) == {}

\* `if client_id in self.heartbeat_tasks:` the task disconnect() cancels
tasks_to_cancel(c) ==
    IF c \in DOMAIN heartbeat_tasks THEN {heartbeat_tasks[c]} ELSE {}

del_heartbeat_task_kept(c) == heartbeat_tasks

\* `del self.heartbeat_tasks[client_id]` under the same test
del_heartbeat_task(c) == Remove(heartbeat_tasks, c)

\* where a task can be suspended; Task.cancel() ends it there with CancelledError,
\* which `except Exception` does not catch
Suspended == {"start", "sending", "sleeping"}

\* the route is called for a new websocket: connect() awaits accept().  Client
\* ids are interchangeable: the first websocket's is "a".
RouteStart(c) ==
    /\ nextWs < MaxSockets
    /\ nextWs = 0 => c = "a"
    /\ nextWs' = nextWs + 1
    /\ wsClient' = [wsClient EXCEPT ![nextWs + 1] = c]
    /\ routePc' = [routePc EXCEPT ![nextWs + 1] = "accepting"]
    /\ UNCHANGED <<active_connections, connection_stats, heartbeat_tasks, wsState,
                   taskPc, taskCancel, callWs, closeRaised>>
    /\ UNCHANGED notConn

\* accept() returned: connect() registers the session and creates its task
ConnectAccepted(w) ==
    /\ routePc[w] = "accepting"
    /\ wsState' = [wsState EXCEPT ![w] = "open"]
    /\ active_connections' = Put(active_connections, wsClient[w], w)
    /\ connection_stats' = Put(connection_stats, wsClient[w], NewStats(w))
    /\ heartbeat_tasks' = Put(heartbeat_tasks, wsClient[w], w)
    /\ taskPc' = [taskPc EXCEPT ![w] = "start"]
    /\ routePc' = [routePc EXCEPT ![w] = "receiving"]
    /\ UNCHANGED <<wsClient, taskCancel, callWs, closeRaised, nextWs>>
    /\ UNCHANGED notConn

\* accept() raised: connect()'s except calls disconnect(client_id)
ConnectFailed(w) ==
    /\ routePc[w] = "accepting"
    /\ UNCHANGED wsState
    /\ disconnect_enter(<<"route", w>>, wsClient[w])
    /\ UNCHANGED <<active_connections, connection_stats, heartbeat_tasks, wsClient,
                   taskCancel, closeRaised, nextWs>>
    /\ UNCHANGED notConn

\* receive_text() raised WebSocketDisconnect: the route calls disconnect(client_id)
RouteDisconnect(w) ==
    /\ routePc[w] = "receiving"
    /\ disconnect_enter(<<"route", w>>, wsClient[w])
    /\ UNCHANGED <<active_connections, connection_stats, heartbeat_tasks, wsClient,
                   wsState, taskCancel, closeRaised, nextWs>>
    /\ UNCHANGED notConn

\* disconnect() after `await ...close()`: close() returned or raised, and the
\* finally block runs: the registered task is cancelled and its entry deleted,
\* then the session and its stats are deleted.  `del` of a missing key raises
\* KeyError out of disconnect.  A task cancelled while it waited in close()
\* runs the finally block too.
DisconnectFinish(p) ==
    /\ ProcPc(p) = "closing"
    /\ LET c == wsClient[p[2]]
           ws == callWs[p]
           cancelled == tasks_to_cancel(c)
           ok == c \in DOMAIN active_connections /\ c \in DOMAIN connection_stats
           final == IF ok THEN "cleaned" ELSE "raised"
       IN  /\ \E raised \in BOOLEAN :
                /\ wsState[ws] = "closed" => raised
                /\ closeRaised' = raised
           /\ wsState' = [wsState EXCEPT ![ws] = "closed"]
           /\ heartbeat_tasks' = del_heartbeat_task(c)
           /\ taskCancel' = [t \in Sockets |-> taskCancel[t] \/ t \in cancelled]
           /\ active_connections' = Remove(active_connections, c)
           /\ connection_stats' = IF ok THEN Remove(connection_stats, c)
                                        ELSE connection_stats
           /\ routePc' = IF p[1] = "route" THEN [routePc EXCEPT ![p[2]] = final]
                                           ELSE routePc
           /\ taskPc' = [t \in Sockets |->
                            IF p = <<"task", t>> THEN final
                            ELSE IF t \in cancelled /\ taskPc[t] \in Suspended
                            THEN "cancelled"
                            ELSE taskPc[t]]
    /\ callWs' = [callWs EXCEPT ![p] = 0]
    /\ UNCHANGED <<wsClient, nextWs>>
    /\ UNCHANGED notConn

\* _heartbeat_loop: the top of an iteration, up to `await websocket.send_json`
HeartbeatIterate(t) ==
    /\ taskPc[t] \in {"start", "sleeping"}
    /\ IF wsClient[t] \notin DOMAIN active_connections
       THEN /\ taskPc' = [taskPc EXCEPT ![t] = "done"]
            /\ UNCHANGED callWs
       ELSE /\ taskPc' = [taskPc EXCEPT ![t] = "sending"]
            /\ callWs' = [callWs EXCEPT ![<<"task", t>>] = active_connections[wsClient[t]]]
    /\ UNCHANGED <<active_connections, connection_stats, heartbeat_tasks, wsClient,
                   wsState, routePc, taskCancel, closeRaised, nextWs>>
    /\ UNCHANGED notConn

\* send_json returned: last_heartbeat is stored, then `await asyncio.sleep(30)`;
\* a stats entry deleted meanwhile raises KeyError into the except branch
HeartbeatSent(t) ==
    /\ taskPc[t] = "sending"
    /\ wsState[callWs[<<"task", t>>]] = "open"
    /\ IF wsClient[t] \in DOMAIN connection_stats
       THEN /\ connection_stats' =
                  [connection_stats EXCEPT ![wsClient[t]].last_heartbeat = "heartbeat"]
            /\ taskPc' = [taskPc EXCEPT ![t] = "sleeping"]
            /\ callWs' = [callWs EXCEPT ![<<"task", t>>] = 0]
            /\ UNCHANGED routePc
       ELSE /\ disconnect_enter(<<"task", t>>, wsClient[t])
            /\ UNCHANGED connection_stats
    /\ UNCHANGED <<active_connections, heartbeat_tasks, wsClient, wsState, taskCancel,
                   closeRaised, nextWs>>
    /\ UNCHANGED notConn

HeartbeatFailed_retry(t) ==
    /\ taskPc[t] = "sending"
    /\ taskPc' = [taskPc EXCEPT ![t] = "sleeping"]
    /\ callWs' = [callWs EXCEPT ![<<"task", t>>] = 0]
    /\ UNCHANGED <<active_connections, connection_stats, heartbeat_tasks, wsClient,
                   wsState, routePc, taskCancel, closeRaised, nextWs>>
    /\ UNCHANGED notConn

\* send_json raised: `except Exception` calls disconnect(client_id), then break
HeartbeatFailed(t) ==
    /\ taskPc[t] = "sending"
    /\ disconnect_enter(<<"task", t>>, wsClient[t])
    /\ UNCHANGED <<active_connections, connection_stats, heartbeat_tasks, wsClient,
                   wsState, taskCancel, closeRaised, nextWs>>
    /\ UNCHANGED notConn

(***************************************************************************)
(* ConnectionManager.broadcast                                             *)
(*                                                                         *)
(* The model follows one broadcast call beside the routes and the          *)
(* heartbeat tasks.  `for client_id, websocket in active_connections       *)
(* .items()` iterates the live dict: the iterator raises RuntimeError at   *)
(* its next step when the dict's size differs from the size it started     *)
(* with.  When keys were deleted and inserted and the size is the same     *)
(* again, what the iterator does depends on the dict's table: it may       *)
(* raise, stop, or yield any entry.  The order of iteration is left open.  *)
(***************************************************************************)

\* broadcast ends by raising err
broadcast_raise(err) ==
    /\ bPc' = "raised"
    /\ bErr' = err
    /\ bCur' = "-"
    /\ bWs' = 0
    /\ bSeen' = {}
    /\ disconnected' = <<>>

\* `for client_id in disconnected: await self.disconnect(client_id)` from the
\* list disc on: disconnect returns at once for an id that is not connected and
\* awaits close() for the first one that is; after the last, broadcast returns
sweep(disc) ==
    LET live == {k \in 1..Len(disc) : disc[k] \in DOMAIN active_connections}
    IN  /\ bErr' = "none"
        /\ bSeen' = {}
        /\ IF live = {}
           THEN /\ bPc' = "returned"
                /\ bCur' = "-"
                /\ bWs' = 0
                /\ disconnected' = <<>>
           ELSE LET k == CHOOSE i \in live : \A j \in live : i <= j
                IN  /\ bPc' = "closing"
                    /\ bCur' = disc[k]
                    /\ bWs' = active_connections[disc[k]]
                    /\ disconnected' = SubSeq(disc, k + 1, Len(disc))

\* the sweep going on after a disconnect() has ended, with the maps as its
\* finally block left them
sweep_after(disc) ==
    LET live == {k \in 1..Len(disc) : disc[k] \in DOMAIN active_connections'}
    IN  /\ bErr' = "none"
        /\ bSeen' = {}
        /\ IF live = {}
           THEN /\ bPc' = "returned"
                /\ bCur' = "-"
                /\ bWs' = 0
                /\ disconnected' = <<>>
           ELSE LET k == CHOOSE i \in live : \A j \in live : i <= j
                IN  /\ bPc' = "closing"
                    /\ bCur' = disc[k]
                    /\ bWs' = active_connections'[disc[k]]
                    /\ disconnected' = SubSeq(disc, k + 1, Len(disc))

\* the loop body up to `await websocket.send_json(message)` for the entry of c
send_to(c, seen, disc) ==
    /\ bPc' = "sending"
    /\ bErr' = "none"
    /\ bCur' = c
    /\ bWs' = active_connections[c]
    /\ bSeen' = seen \cup {c}
    /\ disconnected' = disc

\* keys were deleted or inserted since the iterator was created
IterDirty(start) ==
    \/ DOMAIN active_connections # DOMAIN start
    \/ \E c \in DOMAIN start : wsState[start[c]] = "closed"

\* one step of the dict iterator and what follows it without an await: entries
\* in `exclude` are passed over, the next one is sent to, and after the last
\* entry the sweep of `disconnected` starts
iterate(start, ex, seen, disc, tried) ==
    LET unseen == (DOMAIN active_connections \ seen) \ ex
        fresh == {c \in DOMAIN active_connections \ ex :
                     tried[active_connections[c]] = "none"}
    IN  IF Cardinality(DOMAIN active_connections) # Cardinality(DOMAIN start)
        THEN broadcast_raise("RuntimeError")
        ELSE IF ~IterDirty(start)
        THEN IF unseen = {} THEN sweep(disc)
             ELSE \E c \in unseen : send_to(c, seen, disc)
        ELSE \/ broadcast_raise("RuntimeError")
             \/ sweep(disc)
             \/ \E c \in fresh : send_to(c, seen, disc)

\* what a send's outcome adds to the record of the transport it was made on
Tried(w, outcome) ==
    [bTry EXCEPT ![w] = IF bTry[w] = "none" THEN outcome ELSE "retried"]

\* broadcast(message, exclude) is called
BroadcastStart(ex) ==
    /\ bPc = "idle"
    /\ bExclude' = ex
    /\ bStart' = active_connections
    /\ iterate(active_connections, ex, {}, <<>>, bTry)
    /\ UNCHANGED bTry
    /\ UNCHANGED <<notBcast, connVars>>

\* send_json returned: messages_sent is counted; a stats entry deleted meanwhile
\* raises KeyError inside the try and the id is appended to `disconnected`
BroadcastSent ==
    /\ bPc = "sending"
    /\ wsState[bWs] = "open"
    /\ bTry' = Tried(bWs, "ok")
    /\ IF bCur \in DOMAIN connection_stats
       THEN /\ connection_stats' =
                  [connection_stats EXCEPT ![bCur].messages_sent = @ + 1]
            /\ iterate(bStart, bExclude, bSeen, disconnected, bTry')
       ELSE /\ UNCHANGED connection_stats
            /\ iterate(bStart, bExclude, bSeen, Append(disconnected, bCur), bTry')
    /\ UNCHANGED <<bExclude, bStart>>
    /\ UNCHANGED <<active_connections, heartbeat_tasks, wsClient, wsState, routePc,
                   taskPc, taskCancel, callWs, closeRaised, nextWs>>
    /\ UNCHANGED notBcast

\* send_json raised: `except Exception` appends the id to `disconnected`
BroadcastSendFailed ==
    /\ bPc = "sending"
    /\ bTry' = Tried(bWs, "failed")
    /\ iterate(bStart, bExclude, bSeen, Append(disconnected, bCur), bTry')
    /\ UNCHANGED <<bExclude, bStart>>
    /\ UNCHANGED <<notBcast, connVars>>

\* the disconnect() broadcast awaits: close() returned or raised and the finally
\* block runs, as in DisconnectFinish; KeyError leaves broadcast
BroadcastDisconnectFinish ==
    /\ bPc = "closing"
    /\ LET c == bCur
           cancelled == tasks_to_cancel(c)
           ok == c \in DOMAIN active_connections /\ c \in DOMAIN connection_stats
       IN  /\ \E raised \in BOOLEAN :
                /\ wsState[bWs] = "closed" => raised
                /\ closeRaised' = raised
           /\ wsState' = [wsState EXCEPT ![bWs] = "closed"]
           /\ heartbeat_tasks' = del_heartbeat_task(c)
           /\ taskCancel' = [t \in Sockets |-> taskCancel[t] \/ t \in cancelled]
           /\ active_connections' = Remove(active_connections, c)
           /\ connection_stats' = IF ok THEN Remove(connection_stats, c)
                                        ELSE connection_stats
           /\ taskPc' = [t \in Sockets |->
                            IF t \in cancelled /\ taskPc[t] \in Suspended
                            THEN "cancelled"
                            ELSE taskPc[t]]
           /\ IF ok THEN sweep_after(disconnected) ELSE broadcast_raise("KeyError")
    /\ UNCHANGED <<bExclude, bStart, bTry>>
    /\ UNCHANGED <<wsClient, routePc, callWs, nextWs>>
    /\ UNCHANGED notBcast

(***************************************************************************)
(* ConnectionManager.get_connection_stats                                  *)
(***************************************************************************)


\* get_connection_stats(): no await, one step
GetConnectionStats ==
    /\ stats_returned' = [taken |-> TRUE,
                          total_connections |-> Cardinality(DOMAIN active_connections),
                          connections |-> connection_stats]
    /\ UNCHANGED <<chainVars, connVars, bcastVars, rateVars, mycoVars, toggleVars,
                   burstVars>>

(***************************************************************************)
(* RateLimiter.check_rate_limit                                            *)
(*                                                                         *)
(* self.cache is the RedisCache object of app/core/cache/redis_cache.py.   *)
(* A call of a method the object does not have raises AttributeError at    *)
(* the attribute access, inside the try.  A method it has reaches the      *)
(* store, where the call returns or raises ConnectionError.                *)
(***************************************************************************)
RedisCacheMethods == {"get", "set", "delete", "close"}
\* the SharedCounterStore interface check_rate_limit is written against
CounterStoreMethods == {"incr", "expire", "ttl"}
cache_has(op) == op \in rl_store

default_limits == [GET |-> 120, POST |-> 60, PUT |-> 60, DELETE |-> 30]
endpoint_limits ==
    [p \in {"/api/chain/execute", "/api/neuroweave/ask", "/api/rootbloom/generate"} |->
        IF p = "/api/chain/execute" THEN 30 ELSE 40]
window == 60

\* the method's default looked up before the endpoint's override
limit_for_method_first(method, endpoint) ==
    IF method \in DOMAIN default_limits THEN default_limits[method]
    ELSE IF endpoint \in DOMAIN endpoint_limits THEN endpoint_limits[endpoint]
    ELSE 60

\* self.endpoint_limits.get(endpoint, self.default_limits.get(method, 60))
limit_for(method, endpoint) ==
    IF endpoint \in DOMAIN endpoint_limits THEN endpoint_limits[endpoint]
    ELSE IF method \in DOMAIN default_limits THEN default_limits[method]
    ELSE 60

\* a key without the method
rate_key_per_path(client_id, method, endpoint) ==
    <<"ratelimit:", client_id, ":", endpoint>>

\* f"ratelimit:{client_id}:{method}:{endpoint}"
rate_key(client_id, method, endpoint) ==
    <<"ratelimit:", client_id, ":", method, ":", endpoint>>

\* A header value is the sequence of the parts `split` finds in it; a part is a
\* sequence of tokens, blanks among them.  A header the request does not carry
\* is the empty sequence.
NoHeader == <<>>
Remotes == {<<"10.0.0.1">>, <<"1.1.1.1">>}
Methods == {"GET", "DELETE", "PATCH"}
Endpoints == {"/api/chain/execute", "/api/logs"}
Requests ==
    [authorization : {NoHeader, << <<"Bearer">>, <<"good">> >>,
                      << <<"Bearer">>, <<"bad">> >>, << <<"Bearer">> >>},
     forwarded : {NoHeader, << <<" ", "1.1.1.1", " ">>, <<"2.2.2.2">> >>},
     remote : Remotes,
     method : Methods, path : Endpoints]

\* str.strip()
RECURSIVE lstrip(_)
lstrip(s) == IF s # <<>> /\ Head(s) = " " THEN lstrip(Tail(s)) ELSE s
RECURSIVE rstrip(_)
rstrip(s) ==
    IF s # <<>> /\ s[Len(s)] = " " THEN rstrip(SubSeq(s, 1, Len(s) - 1)) ELSE s
strip(s) == rstrip(lstrip(s))

IsNone(payload) == DOMAIN payload = {"none"}
verify_token(token) ==
    IF token = <<"good">> THEN [sub |-> <<"u1">>, role |-> <<"user">>]
    ELSE [none |-> TRUE]

\* _get_real_ip(request)
get_real_ip(req) ==
    IF req.forwarded # NoHeader THEN strip(req.forwarded[1]) ELSE req.remote

\* `except (IndexError, JWTError): pass` of _get_client_id
client_id_catches(type) == type \in {"IndexError", "JWTError"}

\* what the try block of _get_client_id does: returns the user identity, or
\* raises
client_id_try(req) ==
    IF req.authorization = NoHeader THEN [raises |-> "none", returns |-> FALSE]
    ELSE IF Len(req.authorization) < 2
    THEN [raises |-> "IndexError", returns |-> FALSE]
    ELSE LET payload == verify_token(req.authorization[2])
         IN  IF IsNone(payload)
             THEN [raises |-> "AttributeError", returns |-> FALSE]
             ELSE [raises |-> "none", returns |-> TRUE,
                   id |-> <<"user:">> \o get(payload, "sub")]

\* _get_client_id(request): the identity, or the exception that leaves it
get_client_id(req) ==
    LET t == client_id_try(req)
    IN  IF t.returns THEN [raised |-> "none", id |-> t.id]
        ELSE IF t.raises = "none" \/ client_id_catches(t.raises)
        THEN [raised |-> "none", id |-> <<"ip:">> \o get_real_ip(req)]
        ELSE [raised |-> t.raises]


ClientIds ==
    {get_client_id(req).id : req \in {r \in Requests : get_client_id(r).raised = "none"}}
RateKeys == {rate_key(c, m, e) : c \in ClientIds, m \in Methods, e \in Endpoints}

\* who sent a request, and the (identity, method, path) it was counted under
Senders == Remotes \X ClientIds \X Methods \X Endpoints
\* the entries of rl_sent that a key's window covers
OfKey(key) == {x \in Senders : rate_key(x[2], x[3], x[4]) = key}
\* the calls `sent` records for the entries xs
RECURSIVE SentBy(_, _)
SentBy(sent, xs) ==
    IF xs = {} THEN 0
    ELSE LET x == CHOOSE y \in xs : TRUE
         IN  sent[x] + SentBy(sent, xs \ {x})

faults_of_call ==
    IF ~cache_has("incr") THEN {[op |-> "incr", type |-> "AttributeError"]}
    ELSE {[op |-> "none", type |-> "none"]}
           \cup [op : {"incr", "expire", "ttl"}, type : {"ConnectionError"}]

rate_limiter_catches_connection_errors(e) == e.type = "ConnectionError"

\* `except Exception as e:` of check_rate_limit
rate_limiter_catches(e) == e.type \in {"AttributeError", "ConnectionError"}

NoCall == [taken |-> FALSE]

\* the calls made so far, over all keys
RECURSIVE CallsMade(_)
CallsMade(keys) ==
    IF keys = {} THEN 0
    ELSE LET key == CHOOSE x \in keys : TRUE
         IN  rl_calls[key] + CallsMade(keys \ {key})

\* check_rate_limit(request) from the key to the return, for the k-th request
\* of its key: incr, expire when incr returned 1, ttl, and the decision
check_key(req, client_id) ==
    LET method == req.method
        endpoint == req.path
        key == rate_key(client_id, method, endpoint)
        limit == limit_for(method, endpoint)
        k == rl_calls[key] + 1
    IN  /\ CallsMade(RateKeys) < MaxCalls
        /\ \E f \in faults_of_call, lapsed \in BOOLEAN :
             LET incremented == f.op # "incr"
                 current == rl_counters[key] + 1
                 expires == incremented /\ current = 1 /\ f.op # "expire"
                 ttl == IF lapsed THEN 0 - 2
                        ELSE IF expires THEN window
                        ELSE IF key \in DOMAIN rl_expiry THEN rl_expiry[key] ELSE 0 - 1
                 sender == <<req.remote, client_id, method, endpoint>>
                 sent == [x \in Senders |->
                            IF lapsed /\ x \in OfKey(key) THEN 0
                            ELSE IF incremented /\ x = sender THEN rl_sent[x] + 1
                            ELSE rl_sent[x]]
                 \* history: the calls of the window counted for the sender, and
                 \* for every sender, under the call's (identity, method, path)
                 call == [taken |-> TRUE, request |-> req, client_id |-> client_id,
                          key |-> key, k |-> k, limit |-> limit, fault |-> f,
                          sent_by_sender |-> sent[sender],
                          sent_by_all |->
                              SentBy(sent, {x \in Senders : /\ x[2] = client_id
                                                            /\ x[3] = method
                                                            /\ x[4] = endpoint})]
             IN  \* expire is called, and can fail, only when incr returned 1
                 /\ f.op = "expire" => current = 1
                 \* the key's time to live can run out between incr and ttl
                 /\ lapsed => /\ f.op = "none"
                              /\ current > 1
                              /\ key \in DOMAIN rl_expiry
                 /\ rl_calls' = [rl_calls EXCEPT ![key] = IF lapsed THEN 0 ELSE k]
                 /\ rl_sent' = sent
                 /\ rl_counters' = IF lapsed THEN [rl_counters EXCEPT ![key] = 0]
                                    ELSE IF incremented
                                    THEN [rl_counters EXCEPT ![key] = current]
                                    ELSE rl_counters
                 /\ rl_expiry' = IF lapsed THEN Remove(rl_expiry, key)
                                  ELSE IF expires THEN Put(rl_expiry, key, window)
                                  ELSE rl_expiry
                 /\ rl_last' =
                       IF f.op = "none"
                       THEN IF current > limit
                            THEN call @@ [raised |-> FALSE, allowed |-> FALSE,
                                          remaining |-> 0, reset |-> ttl]
                            ELSE call @@ [raised |-> FALSE, allowed |-> TRUE,
                                          remaining |-> limit - current, reset |-> ttl]
                       ELSE IF rate_limiter_catches(f)
                       THEN call @@ [raised |-> FALSE, allowed |-> TRUE,
                                     remaining |-> 0, reset |-> 60]
                       ELSE call @@ [raised |-> TRUE]

\* check_rate_limit(request): `client_id = await self._get_client_id(request)` is
\* outside the try, so what it raises leaves check_rate_limit
CheckRateLimit(req) ==
    /\ LET c == get_client_id(req)
       IN  IF c.raised = "none" THEN check_key(req, c.id)
           ELSE /\ rl_last' = [taken |-> TRUE, request |-> req, raised |-> TRUE,
                               fault |-> [op |-> "get_client_id", type |-> c.raised]]
                /\ rl_last' # rl_last
                /\ UNCHANGED <<rl_counters, rl_expiry, rl_calls, rl_sent>>
    /\ UNCHANGED rl_store
    /\ UNCHANGED notRate

\* the store drops a key whose time to live has run out: the window is over
WindowExpires(key) ==
    /\ key \in DOMAIN rl_expiry
    /\ rl_counters' = [rl_counters EXCEPT ![key] = 0]
    /\ rl_expiry' = Remove(rl_expiry, key)
    /\ rl_calls' = [rl_calls EXCEPT ![key] = 0]
    /\ rl_sent' = [x \in Senders |-> IF x \in OfKey(key) THEN 0 ELSE rl_sent[x]]
    /\ UNCHANGED <<rl_last, rl_store>>
    /\ UNCHANGED notRate

(***************************************************************************)
(* Mycocore: the singleton, its lock and its operations                    *)
(*                                                                         *)
(* Threads call Mycocore() and, on the reference they got, the operations  *)
(* of the instance.  __new__ runs statement by statement; an operation is  *)
(* one attribute read or write, which the interpreter does in one step.    *)
(* The fields are those of the object Mycocore._instance refers to.        *)
(***************************************************************************)
Threads == 1..MaxThreads
NoRef == None
FlagKeys == {"k1", "k2"}
AgentNames == {"x"}
Intruders == {"intruder"}

\* threading.Lock.acquire(): blocks while the lock is held, by whomever
acquire_unlocked(t) ==
    /\ lock_owner' = t

acquire(t) ==
    /\ lock_owner = 0
    /\ lock_owner' = t

\* the end of `with cls._lock:`
release_missing(t) ==
    /\ lock_owner' = lock_owner

release(t) ==
    /\ lock_owner' = 0

\* one more _init_mycocore call
one_more(n) == IF n < 2 THEN n + 1 ELSE 2

\* what a step leaves in op_last
Step(t, op) == [op |-> op, thread |-> t, lock_held |-> lock_owner = t]

\* a thread calls Mycocore(): __new__ is entered
Construct(t) ==
    /\ tpc[t] = "idle"
    /\ tpc' = [tpc EXCEPT ![t] = "acquire"]
    /\ op_last' = Step(t, "new")
    /\ UNCHANGED <<instance, lock_owner, system_flags, active_agents, tref,
                   initialised, agents_returned>>
    /\ UNCHANGED <<safe_mode, lastOp>>
    /\ UNCHANGED notMyco

\* with cls._lock:
NewAcquire(t) ==
    /\ tpc[t] = "acquire"
    /\ acquire(t)
    /\ tpc' = [tpc EXCEPT ![t] = "check"]
    /\ op_last' = Step(t, "acquire")
    /\ UNCHANGED <<instance, system_flags, active_agents, tref, initialised,
                   agents_returned>>
    /\ UNCHANGED <<safe_mode, lastOp>>
    /\ UNCHANGED notMyco

\* if cls._instance is None:
NewCheck(t) ==
    /\ tpc[t] = "check"
    /\ tpc' = [tpc EXCEPT ![t] = IF instance = NoRef THEN "create" ELSE "return"]
    /\ op_last' = Step(t, "check") @@ [found |-> instance # NoRef]
    /\ UNCHANGED <<instance, lock_owner, system_flags, active_agents, tref,
                   initialised, agents_returned>>
    /\ UNCHANGED <<safe_mode, lastOp>>
    /\ UNCHANGED notMyco

\* cls._instance = super().__new__(cls): a new object, named by its creator
NewCreate(t) ==
    /\ tpc[t] = "create"
    /\ instance' = <<"Mycocore", t>>
    /\ tpc' = [tpc EXCEPT ![t] = "init"]
    /\ op_last' = Step(t, "create")
    /\ UNCHANGED <<lock_owner, system_flags, active_agents, tref, initialised,
                   agents_returned>>
    /\ UNCHANGED <<safe_mode, lastOp>>
    /\ UNCHANGED notMyco

\* get_active_agents(): self._active_agents.copy()
get_active_agents_live == [taken |-> TRUE, alias |-> TRUE, agents |-> active_agents]

get_active_agents == [taken |-> TRUE, alias |-> FALSE, agents |-> active_agents]

\* the set a caller holds, after self._active_agents became `new`
held_after(new) ==
    IF agents_returned.taken /\ agents_returned.alias
    THEN [agents_returned EXCEPT !.agents = new]
    ELSE agents_returned

\* cls._instance._init_mycocore()
InitMycocore(t) ==
    /\ tpc[t] = "init"
    /\ safe_mode' = FALSE
    /\ lastOp' = "init"
    /\ system_flags' = EmptyDict
    /\ active_agents' = {}
    /\ agents_returned' = IF agents_returned.taken
                          THEN [agents_returned EXCEPT !.alias = FALSE]
                          ELSE agents_returned
    /\ initialised' = one_more(initialised)
    /\ tpc' = [tpc EXCEPT ![t] = "return"]
    /\ op_last' = Step(t, "_init_mycocore")
    /\ UNCHANGED <<instance, lock_owner, tref>>
    /\ UNCHANGED notMyco

\* return cls._instance, leaving the with block
NewReturn(t) ==
    /\ tpc[t] = "return"
    /\ release(t)
    /\ tref' = [tref EXCEPT ![t] = instance]
    /\ tpc' = [tpc EXCEPT ![t] = "idle"]
    /\ op_last' = Step(t, "return")
    /\ UNCHANGED <<instance, system_flags, active_agents, initialised, agents_returned>>
    /\ UNCHANGED <<safe_mode, lastOp>>
    /\ UNCHANGED notMyco

\* a thread that holds a reference and is not inside Mycocore()
CanCall(t) == tref[t] # NoRef /\ tpc[t] = "idle"

\* core.is_safe()
IsSafe(t) ==
    /\ CanCall(t)
    /\ op_last' = Step(t, "is_safe") @@ [result |-> is_safe]
    /\ UNCHANGED <<instance, lock_owner, system_flags, active_agents, tpc, tref,
                   initialised, agents_returned>>
    /\ UNCHANGED <<safe_mode, lastOp>>
    /\ UNCHANGED notMyco

\* core.enable_safe_mode()
CallEnableSafeMode(t) ==
    /\ CanCall(t)
    /\ enable_safe_mode
    /\ op_last' = Step(t, "enable_safe_mode")
    /\ UNCHANGED <<instance, lock_owner, system_flags, active_agents, tpc, tref,
                   initialised, agents_returned>>
    /\ UNCHANGED notMyco

\* core.disable_safe_mode()
CallDisableSafeMode(t) ==
    /\ CanCall(t)
    /\ disable_safe_mode
    /\ op_last' = Step(t, "disable_safe_mode")
    /\ UNCHANGED <<instance, lock_owner, system_flags, active_agents, tpc, tref,
                   initialised, agents_returned>>
    /\ UNCHANGED notMyco

\* get_flag(key, default): return self._system_flags.get(key)
get_flag(key, default) == get(system_flags, key)

\* core.set_flag(key, value)
SetFlag(t, key, value) ==
    /\ CanCall(t)
    /\ system_flags' = Put(system_flags, key, value)
    /\ op_last' = Step(t, "set_flag") @@ [key |-> key, value |-> value]
    /\ UNCHANGED <<instance, lock_owner, active_agents, tpc, tref, initialised,
                   agents_returned>>
    /\ UNCHANGED <<safe_mode, lastOp>>
    /\ UNCHANGED notMyco

\* core.get_flag(key, default)
GetFlag(t, key, default) ==
    /\ CanCall(t)
    /\ op_last' = Step(t, "get_flag") @@
                    [key |-> key, default |-> default, result |-> get_flag(key, default)]
    /\ UNCHANGED <<instance, lock_owner, system_flags, active_agents, tpc, tref,
                   initialised, agents_returned>>
    /\ UNCHANGED <<safe_mode, lastOp>>
    /\ UNCHANGED notMyco

\* core.register_agent(name): self._active_agents.add(name)
RegisterAgent(t, name) ==
    /\ CanCall(t)
    /\ active_agents' = active_agents \cup {name}
    /\ agents_returned' = held_after(active_agents')
    /\ op_last' = Step(t, "register_agent") @@ [name |-> name]
    /\ UNCHANGED <<instance, lock_owner, system_flags, tpc, tref, initialised>>
    /\ UNCHANGED <<safe_mode, lastOp>>
    /\ UNCHANGED notMyco

\* core.unregister_agent(name): self._active_agents.discard(name)
UnregisterAgent(t, name) ==
    /\ CanCall(t)
    /\ active_agents' = active_agents \ {name}
    /\ agents_returned' = held_after(active_agents')
    /\ op_last' = Step(t, "unregister_agent") @@ [name |-> name]
    /\ UNCHANGED <<instance, lock_owner, system_flags, tpc, tref, initialised>>
    /\ UNCHANGED <<safe_mode, lastOp>>
    /\ UNCHANGED notMyco

\* core.get_active_agents()
GetActiveAgents(t) ==
    /\ CanCall(t)
    /\ agents_returned' = get_active_agents
    /\ op_last' = Step(t, "get_active_agents")
    /\ UNCHANGED <<instance, lock_owner, system_flags, active_agents, tpc, tref,
                   initialised>>
    /\ UNCHANGED <<safe_mode, lastOp>>
    /\ UNCHANGED notMyco

\* the caller changes the set it was handed: add(name) or clear()
CallerMutates(t, names) ==
    /\ agents_returned.taken
    /\ agents_returned.agents # names
    /\ names = {} \/ \E n \in Intruders : names = agents_returned.agents \cup {n}
    /\ agents_returned' = [agents_returned EXCEPT !.agents = names]
    /\ active_agents' = IF agents_returned.alias THEN names ELSE active_agents
    /\ op_last' = Step(t, "caller_mutates")
    /\ UNCHANGED <<instance, lock_owner, system_flags, tpc, tref, initialised>>
    /\ UNCHANGED <<safe_mode, lastOp>>
    /\ UNCHANGED notMyco

(***************************************************************************)
(* The safe-mode toggle route                                              *)
(*                                                                         *)
(* toggle_safe_mode is a plain def: each request runs on a thread of the   *)
(* worker pool, on the module's `core`.  The read of is_safe() and the     *)
(* call it selects are separate steps of the request's thread.             *)
(***************************************************************************)
ToggleRequests == 1..MaxToggles

\* toggle requests completed
toggles == Cardinality({r \in ToggleRequests : tg_pc[r] = "done"})


\* toggle_safe_mode: `if core.is_safe():`
ToggleCheck(r) ==
    /\ tg_pc[r] = "new"
    /\ tg_pc' = [tg_pc EXCEPT ![r] = IF is_safe THEN "saw_safe" ELSE "saw_unsafe"]
    /\ UNCHANGED <<safe_mode, lastOp>>
    /\ UNCHANGED notToggle

\* toggle_safe_mode: core.enable_safe_mode() or core.disable_safe_mode()
ToggleAct(r) ==
    /\ tg_pc[r] \in {"saw_safe", "saw_unsafe"}
    /\ IF tg_pc[r] = "saw_safe"
       THEN enable_safe_mode
       ELSE disable_safe_mode
    /\ tg_pc' = [tg_pc EXCEPT ![r] = "done"]
    /\ UNCHANGED notToggle

(***************************************************************************)
(* Concurrent requests for one key in rate_limit_middleware                *)
(*                                                                         *)
(* The requests are coroutines on one event loop: each runs from one await *)
(* (a store round trip of check_rate_limit, call_next) to the next.  All   *)
(* carry the same request, so they share one counter.                      *)
(***************************************************************************)
Coroutines == 1..MaxCoroutines
BurstRequest ==
    [authorization |-> NoHeader, forwarded |-> NoHeader, remote |-> <<"10.0.0.1">>,
     method |-> "GET", path |-> "/api/chain/execute"]
BurstKey ==
    rate_key(get_client_id(BurstRequest).id, BurstRequest.method, BurstRequest.path)
BurstLimit == limit_for(BurstRequest.method, BurstRequest.path)

\* check_rate_limit calls entered and not yet returned
RECURSIVE Pending(_)
Pending(cs) ==
    IF cs = {} THEN 0
    ELSE LET c == CHOOSE x \in cs : TRUE
         IN  (IF b_pc[c] \in {"incr", "expire", "ttl"} THEN 1 ELSE 0)
               + Pending(cs \ {c})

NoResult == [allowed |-> FALSE, remaining |-> 0, reset |-> 0, none |-> TRUE]
Result(allowed, remaining, reset) ==
    [allowed |-> allowed, remaining |-> remaining, reset |-> reset]
\* int(time.time()) when the response leaves
Times == {1700000000, 1700000030}

\* check_rate_limit returns `result` to the middleware (line 83)
BurstReturn(c, result) ==
    /\ b_pc' = [b_pc EXCEPT ![c] = "returned"]
    /\ b_cur' = [b_cur EXCEPT ![c] = 0]
    /\ b_ret' = [b_ret EXCEPT ![c] = result]
    /\ b_made' = b_made + 1
    /\ b_allowed' = IF result.allowed THEN b_allowed + 1 ELSE b_allowed
    /\ UNCHANGED mw_out

\* rate_limit_middleware calls check_rate_limit, which runs up to
\* `await self.cache.incr(key)`
BurstEnter(c) ==
    /\ b_pc[c] = "idle"
    /\ b_made + Pending(Coroutines) < MaxBurst
    /\ b_pc' = [b_pc EXCEPT ![c] = "incr"]
    /\ UNCHANGED <<b_cur, b_made, b_allowed, b_ret, mw_out>>
    /\ UNCHANGED rateVars
    /\ UNCHANGED notBurst

\* `current = await self.cache.incr(key)`: the attribute access raises when the
\* object has no incr, and `except Exception` returns (True, 0, 60); else the
\* store increments the counter in one step
BurstIncr(c) ==
    /\ b_pc[c] = "incr"
    /\ IF ~cache_has("incr")
       THEN /\ rate_limiter_catches([op |-> "incr", type |-> "AttributeError"])
            /\ BurstReturn(c, Result(TRUE, 0, 60))
            /\ UNCHANGED rateVars
       ELSE /\ rl_counters' = [rl_counters EXCEPT ![BurstKey] = @ + 1]
            /\ b_cur' = [b_cur EXCEPT ![c] = rl_counters'[BurstKey]]
            /\ b_pc' = [b_pc EXCEPT ![c] = IF b_cur'[c] = 1 THEN "expire" ELSE "ttl"]
            /\ UNCHANGED <<b_made, b_allowed, b_ret, mw_out, rl_expiry, rl_calls,
                           rl_sent, rl_last, rl_store>>
    /\ UNCHANGED notBurst

\* `await self.cache.expire(key, window)`
BurstExpire(c) ==
    /\ b_pc[c] = "expire"
    /\ rl_expiry' = Put(rl_expiry, BurstKey, window)
    /\ b_pc' = [b_pc EXCEPT ![c] = "ttl"]
    /\ UNCHANGED <<b_cur, b_made, b_allowed, b_ret, mw_out, rl_counters, rl_calls,
                   rl_sent, rl_last, rl_store>>
    /\ UNCHANGED notBurst

\* `ttl = await self.cache.ttl(key)` and the decision
BurstTtl(c) ==
    /\ b_pc[c] = "ttl"
    /\ LET ttl == IF BurstKey \in DOMAIN rl_expiry THEN rl_expiry[BurstKey] ELSE 0 - 1
       IN  IF b_cur[c] > BurstLimit
           THEN BurstReturn(c, Result(FALSE, 0, ttl))
           ELSE BurstReturn(c, Result(TRUE, BurstLimit - b_cur[c], ttl))
    /\ UNCHANGED rateVars
    /\ UNCHANGED notBurst

\* a middleware that lets every request through
mw_denies_never(is_allowed) == FALSE

\* `if not is_allowed:` (line 85)
mw_denies(is_allowed) == ~is_allowed

\* the middleware leaves: the request's outcome is recorded
MwLeave(c, outcome) ==
    /\ b_pc' = [b_pc EXCEPT ![c] = "idle"]
    /\ b_ret' = [b_ret EXCEPT ![c] = NoResult]
    /\ mw_out' = outcome
    /\ UNCHANGED <<b_cur, b_made, b_allowed>>
    /\ UNCHANGED rateVars
    /\ UNCHANGED notBurst

\* raise HTTPException(status_code=429, detail={"error": ..., "retry_after": reset_in})
MwDeny(c) ==
    /\ b_pc[c] = "returned"
    /\ mw_denies(b_ret[c].allowed)
    /\ MwLeave(c, [taken |-> TRUE, result |-> b_ret[c], handler |-> FALSE,
                   left |-> "HTTPException", status_code |-> 429,
                   detail |-> [error |-> "Too many requests",
                               retry_after |-> b_ret[c].reset]])

\* `response = await call_next(request)`: the wrapped handler is invoked
MwCallNext(c) ==
    /\ b_pc[c] = "returned"
    /\ ~mw_denies(b_ret[c].allowed)
    /\ b_pc' = [b_pc EXCEPT ![c] = "call_next"]
    /\ mw_out' = [taken |-> TRUE, result |-> b_ret[c], handler |-> TRUE,
                  left |-> "no"]
    /\ UNCHANGED <<b_cur, b_made, b_allowed, b_ret>>
    /\ UNCHANGED rateVars
    /\ UNCHANGED notBurst

\* call_next returned a response: the two headers are set and it is returned
MwRespond(c) ==
    /\ b_pc[c] = "call_next"
    /\ \E now \in Times :
         MwLeave(c, [taken |-> TRUE, result |-> b_ret[c], handler |-> TRUE,
                     left |-> "response",
                     headers |->
                        ("X-RateLimit-Remaining" :> ToString(b_ret[c].remaining)
                         @@ "X-RateLimit-Reset" :> ToString(now + b_ret[c].reset))])

\* call_next raised: the exception leaves the middleware, no header is set
MwCallNextRaises(c) ==
    /\ b_pc[c] = "call_next"
    /\ MwLeave(c, [taken |-> TRUE, result |-> b_ret[c], handler |-> TRUE,
                   left |-> "Exception"])

(***************************************************************************)
(* Properties of the chain executor and the safety gate                    *)
(***************************************************************************)
\* the entries the run in progress has appended sit at base+1 .. Len(history)
RunEntries == (base + 1)..Len(history)
Malformed(step) == "agent" \notin DOMAIN step

\* case-insensitive equality of two names, letter by letter
SameIgnoringCase(a, b) ==
    /\ Len(a) = Len(b)
    /\ \A i \in DOMAIN a :
        \/ a[i] = b[i]
        \/ a[i] \in DOMAIN UpperToLower /\ UpperToLower[a[i]] = b[i]
        \/ b[i] \in DOMAIN UpperToLower /\ UpperToLower[b[i]] = a[i]
Registered(name) == \E key \in DOMAIN AGENT_REGISTRY : SameIgnoringCase(name, key)

\* C1: for every chain of length n, run returns exactly n entries, the i-th
\* entry belonging to the i-th input step, whatever subset of the steps fails.
C1_RunReturnsOneEntryPerStep ==
    pc = "ret" =>
        /\ Len(history) = Len(chain)
        /\ \A i \in 1..Len(chain) :
            i <= Len(log) /\ log[i].i = i /\ log[i].step = chain[i]

\* C2: within one run execute_step is invoked exactly once per step, in input
\* order; a step is not started before the previous step's entry has been
\* appended, and an exception raised by a step does not keep the later steps
\* from being executed.
C2_StepsRunOnceInOrder ==
    /\ calls = [i \in 1..Len(calls) |-> i]
    /\ ~returned.raised
    /\ pc # "idle" => \A k \in RunEntries : log[k].i = k - base
    /\ pc = "step" => Len(calls) = idx - 1 /\ Len(history) = base + idx - 1
    /\ pc \in {"ask", "model"} => Len(calls) = idx /\ Len(history) = base + idx - 1
    /\ pc = "ret" => Len(calls) = Len(chain) /\ Len(history) = base + Len(chain)

C2_Witness ==
    /\ pc = "ret"
    /\ Len(chain) = 2
    /\ "error" \in DOMAIN history[base + 1]
    /\ calls = <<1, 2>>
    /\ "output" \in DOMAIN history[base + 2]

\* C3: while safe mode is on for the whole of a run, every entry of the run
\* carries the halt output, the registry is never looked up and no handler is
\* invoked, whatever the step holds.
C3_SafeModeHaltsEveryStep ==
    (haltedAll /\ pc # "idle") =>
        /\ pc \notin {"ask", "model"}
        /\ \A k \in RunEntries :
            /\ "output" \in DOMAIN history[k]
            /\ history[k].output = HaltOutput
            /\ ~log[k].looked /\ ~log[k].asked /\ ~log[k].called

C3_Witness ==
    /\ haltedAll
    /\ pc = "ret"
    /\ Len(chain) = 2
    /\ Len(history) = base + 2
    /\ \E i \in 1..2 : Malformed(chain[i])
    /\ \E i \in 1..2 : ~Malformed(chain[i]) /\ Registered(chain[i].agent)

\* C4: safe mode is a reversible gate: is_safe() is true initially, false after
\* enable_safe_mode and true again after disable_safe_mode; a step executed
\* after enable then disable is dispatched to the registered handler and its
\* entry carries the handler's output, as when safe mode was never enabled.
\* (Stated of the newest entry, which every entry once was.)
C4_SafeModeIsReversible ==
    /\ is_safe = (lastOp # "enable")
    /\ \A k \in {Len(log)} \ {0} :
        lastGate \in {"init", "disable"} =>
            /\ log[k].operational
            /\ ("output" \in DOMAIN history[k] => history[k].output # HaltOutput)
            /\ (~Malformed(log[k].step) /\ Registered(log[k].step.agent))
                    => log[k].asked
            /\ log[k].reply # <<>> =>
                    /\ history[k].output = log[k].reply
                    /\ SameIgnoringCase(history[k].agent, log[k].step.agent)

C4_Witness ==
    \E k \in {Len(log)} :
        /\ k > 0
        /\ lastGate = "disable"
        /\ log[k].called
        /\ log[k].reply \in Replies
        /\ history[k].output = log[k].reply

\* C5: when the system is operational, a step whose target is not in the
\* registry yields an entry with the "unknown agent" output and run does not
\* raise because of it; the registry lookup ignores letter case.
C5_UnknownAgentIsAnOutcome ==
    /\ ~returned.raised
    /\ \A k \in DOMAIN log :
        (log[k].operational /\ ~Malformed(log[k].step)) =>
            IF Registered(log[k].step.agent)
            THEN /\ log[k].asked
                 /\ history[k].output # UnknownOutput(log[k].step.agent)
            ELSE /\ ~log[k].asked
                 /\ history[k] = [agent |-> log[k].step.agent,
                                  input |-> log[k].step.prompt,
                                  output |-> UnknownOutput(log[k].step.agent)]

C5_Witness ==
    /\ returned.done /\ ~returned.raised /\ returned.live
    /\ \E k \in DOMAIN history :
        /\ log[k].operational
        /\ ~Malformed(log[k].step)
        /\ ~Registered(log[k].step.agent)
        /\ history[k].output = UnknownOutput(log[k].step.agent)
    /\ \E k \in DOMAIN history :
        /\ ~Malformed(log[k].step)
        /\ log[k].step.agent \notin DOMAIN AGENT_REGISTRY
        /\ log[k].asked

\* C6, as claimed: a handler's exception does not reach the chain driver and
\* the step's entry records the failure in its error field.
C6_HandlerFailureInErrorField ==
    /\ ~returned.raised
    /\ \A k \in DOMAIN log : log[k].raised => "error" \in DOMAIN history[k]

\* C6, amended: a handler's exception does not reach the chain driver; the
\* step's entry has no error field and records the failure in its output
\* field, as the text "Error: <message>", and the run goes on.
C6_HandlerFailureInOutputField ==
    /\ ~returned.raised
    /\ \A k \in DOMAIN log :
        log[k].raised =>
            /\ DOMAIN history[k] = {"agent", "input", "output"}
            /\ history[k].agent = log[k].step.agent
            /\ history[k].input = log[k].step.prompt
            /\ \E e \in HandlerErrors : history[k].output = ErrorOutput(e)
    /\ (pc = "ret" => Len(history) = base + Len(chain))

C6_Witness ==
    /\ pc = "ret"
    /\ Len(chain) = 2
    /\ Len(history) = base + 2
    /\ log[base + 1].raised
    /\ history[base + 1].output = <<"Error: ", "model call failed">>

\* C7, as claimed: a step with no target is surfaced to the caller of run and
\* is not swallowed into the history.
C7_MalformedStepIsSurfaced ==
    \A k \in DOMAIN log : ~Malformed(log[k].step)

\* C7, amended: a step with no target is not surfaced to the caller of run.
\* While operational, execute_step raises on it, run catches the exception and
\* appends the entry {step, error}; in safe mode it gets the halt entry; run
\* goes on to the next step and returns normally.
C7_MalformedStepIsRecorded ==
    /\ ~returned.raised
    /\ \A k \in DOMAIN log :
        Malformed(log[k].step) =>
            IF log[k].operational
            THEN history[k] = [step |-> log[k].step, error |-> NoneLowerError.msg]
            ELSE history[k].output = HaltOutput
    /\ (pc = "ret" => Len(history) = base + Len(chain))

C7_Witness ==
    /\ pc = "ret"
    /\ Len(chain) = 2
    /\ Len(history) = base + 2
    /\ Malformed(chain[1])
    /\ log[base + 1].operational
    /\ "error" \in DOMAIN history[base + 1]

\* C8: a history is never shared across runs: what a run returns holds only
\* the entries of that run's steps, also on an instance that has run a chain
\* before, and a later run does not change a history already returned.
C8_HistoryNotSharedAcrossRuns ==
    /\ pc = "ret" => base = 0
    /\ returned.live => history = returned.snap

(***************************************************************************)
(* Properties of ConnectionManager                                         *)
(***************************************************************************)
\* a coroutine calls disconnect() in this step / its disconnect() ends in this step
CallsDisconnect(p) ==
    /\ ProcPc(p) \in {"accepting", "receiving", "sending"}
    /\ ProcPc(p)' \in {"closing", "returned", "raised"}
DisconnectEnds(p) ==
    /\ ProcPc(p) = "closing"
    /\ ProcPc(p)' # "closing"
Absent(c) ==
    /\ c \notin DOMAIN active_connections
    /\ c \notin DOMAIN connection_stats
    /\ c \notin DOMAIN heartbeat_tasks

\* C9: disconnect(id) called for an id that is not in the session map (a second
\* call after the first one has ended, or an id that was never connected)
\* returns without raising, closes no transport, cancels no task and leaves
\* active_connections, connection_stats and heartbeat_tasks unchanged.
C9_DisconnectIdempotent ==
    [][\A p \in Procs :
         (CallsDisconnect(p) /\ wsClient[p[2]] \notin DOMAIN active_connections) =>
            /\ ProcPc(p)' = "returned"
            /\ wsState' = wsState
            /\ taskCancel' = taskCancel
            /\ active_connections' = active_connections
            /\ connection_stats' = connection_stats
            /\ heartbeat_tasks' = heartbeat_tasks]_vars

\* socket 1: the heartbeat task disconnected the client and the route's later
\* call found nothing to do; socket 2: accept() failed for a client that was
\* never connected and connect()'s call found nothing to do
C9_Witness ==
    /\ wsClient[1] # wsClient[2]
    /\ taskPc[1] = "cleaned"
    /\ routePc[1] = "returned"
    /\ wsState[1] = "closed"
    /\ routePc[2] = "returned"
    /\ wsState[2] = "new"
    /\ Absent(wsClient[1])
    /\ Absent(wsClient[2])

\* C10: when a disconnect(id) that found id connected ends, whether close()
\* returned or raised, id is in none of active_connections, connection_stats
\* and heartbeat_tasks and the task registered for id has been cancelled; a
\* heartbeat send starts only for an id that is in active_connections and only
\* in a task that has not been cancelled, so none follows the disconnect.
C10_DisconnectCleansUp ==
    [][/\ \A p \in Procs :
            DisconnectEnds(p) =>
               /\ Absent(wsClient[p[2]])'
               /\ wsClient[p[2]] \in DOMAIN heartbeat_tasks =>
                      taskCancel'[heartbeat_tasks[wsClient[p[2]]]]
       /\ \A t \in Sockets :
            (taskPc[t] # "sending" /\ taskPc'[t] = "sending") =>
               /\ wsClient[t] \in DOMAIN active_connections
               /\ ~taskCancel[t]
       /\ \A t \in Sockets :
            taskCancel'[t] => taskPc'[t] \notin Suspended]_vars

\* the route's disconnect ended with close() raising: the client is gone from
\* the three maps and its heartbeat task, cancelled while it slept, is over
C10_Witness ==
    /\ closeRaised
    /\ routePc[1] = "cleaned"
    /\ taskPc[1] = "cancelled"
    /\ taskCancel[1]
    /\ wsState[1] = "closed"
    /\ Absent(wsClient[1])
    /\ \A q \in Procs \ {<<"route", 1>>} : ProcPc(q) # "cleaned"

\* C11: at every await, where another coroutine can run, active_connections,
\* connection_stats and heartbeat_tasks have the same keys: no task is
\* registered for an id without a session and no session lacks a registered task.
C11_MapsShareKeys ==
    /\ DOMAIN active_connections = DOMAIN connection_stats
    /\ DOMAIN active_connections = DOMAIN heartbeat_tasks

\* one client has been disconnected while the other is still registered
C11_Witness ==
    /\ wsClient[1] # wsClient[2]
    /\ routePc[1] = "cleaned"
    /\ Absent(wsClient[1])
    /\ routePc[2] = "receiving"
    /\ wsClient[2] \in DOMAIN active_connections
    /\ wsClient[2] \in DOMAIN connection_stats
    /\ wsClient[2] \in DOMAIN heartbeat_tasks

(***************************************************************************)
(* Properties of broadcast                                                 *)
(***************************************************************************)
BroadcastEnded == bPc \in {"returned", "raised"}
\* the sessions that were live when broadcast was called and are live at its
\* end, as transports
LiveThroughout ==
    {w \in Sockets : \E c \in DOMAIN bStart :
        /\ bStart[c] = w
        /\ c \in DOMAIN active_connections
        /\ active_connections[c] = w}
Excluded(w) == wsClient[w] \in bExclude

\* C12: a broadcast call makes exactly one send attempt to every live session
\* that is not in the exclude set, none to a session in the exclude set, and
\* never a second attempt after a failed one.
C12_OneAttemptPerSession ==
    /\ \A w \in Sockets : bTry[w] # "retried"
    /\ \A w \in Sockets : Excluded(w) => bTry[w] = "none"
    /\ BroadcastEnded =>
          \A w \in LiveThroughout : ~Excluded(w) => bTry[w] \in {"ok", "failed"}

\* sessions as transports: registered, and gone from the three maps
Live(w) ==
    /\ wsClient[w] \in DOMAIN active_connections
    /\ active_connections[wsClient[w]] = w
Gone(w) ==
    /\ ~Live(w)
    /\ wsClient[w] \in DOMAIN connection_stats =>
          connection_stats[wsClient[w]].connected_at # w
    /\ wsClient[w] \in DOMAIN heartbeat_tasks => heartbeat_tasks[wsClient[w]] # w

\* C13: a send failure on one session does not stop the delivery to the
\* remaining sessions that are not excluded and nothing is raised to the caller
\* of broadcast, whichever sends fail.
C13_SendFailureContained ==
    (BroadcastEnded /\ (\E w \in Sockets : bTry[w] = "failed")) =>
        /\ bPc = "returned"
        /\ \A w \in LiveThroughout : ~Excluded(w) => bTry[w] # "none"

\* C14: when the broadcast call returns, every session whose send failed is in
\* none of the three maps and its heartbeat task is cancelled, and the sessions
\* whose send succeeded are still live.
C14_FailedSessionsRemoved ==
    bPc = "returned" =>
        \A w \in Sockets :
            /\ bTry[w] = "failed" => (Gone(w) /\ taskCancel[w])
            /\ bTry[w] = "ok" => Live(w)

\* a heartbeat task's send has failed: it is in, or past, its disconnect call
LoopLeft == {"closing", "returned", "cleaned", "raised", "cancelled", "done"}

\* C15: a failed heartbeat send always ends in a disconnect of that session and
\* the end of its loop: the failure is followed at once by the disconnect call,
\* a task that has left its loop never sends again, the id is in no map when
\* the task's disconnect call is over, the call does end, and a task that
\* keeps running is one whose sends keep succeeding.
C15_HeartbeatFailureDisconnects ==
    /\ [][\A t \in Sockets :
            /\ (taskPc[t] = "sending" /\ taskPc'[t] \notin {"sending", "sleeping"}) =>
                   \/ taskPc'[t] = "cancelled"
                   \/ /\ CallsDisconnect(<<"task", t>>)
                      /\ taskPc'[t] = "closing" <=>
                             wsClient[t] \in DOMAIN active_connections
            /\ taskPc[t] \in LoopLeft => taskPc'[t] \in LoopLeft
            /\ (taskPc[t] = "closing" /\ taskPc'[t] # "closing") =>
                   wsClient[t] \notin DOMAIN active_connections']_vars
    /\ \A t \in Sockets :
            (taskPc[t] = "closing") ~> (taskPc[t] \in {"cleaned", "raised"})
    /\ \A t \in Sockets :
            <>[](taskPc[t] \in Suspended) => []<><<HeartbeatSent(t)>>_vars

\* the task's send failed, its disconnect closed the transport and removed the
\* client, and the loop is over
C15_Witness ==
    /\ taskPc[1] = "cleaned"
    /\ taskCancel[1]
    /\ wsState[1] = "closed"
    /\ Absent(wsClient[1])
    /\ routePc[1] = "receiving"

\* C18: get_connection_stats returns a deep copy: connects, disconnects and
\* heartbeats after the call do not change what was returned.
C18_StatsSnapshotIsACopy ==
    stats_returned.taken => (IF stats_returned.taken THEN connection_stats ELSE EmptyDict) = stats_returned.connections

\* C19: inside one window the k-th call of check_rate_limit for a key with
\* limit L returns allowed with remaining = L - k when k <= L and denied when
\* k > L.
C19_KthCallCountsDown ==
    rl_last.taken =>
        /\ ~rl_last.raised
        /\ IF rl_last.k <= rl_last.limit
           THEN rl_last.allowed /\ rl_last.remaining = rl_last.limit - rl_last.k
           ELSE ~rl_last.allowed

\* C20: the rate limiter fails open: a call in which a counter-store operation
\* raised returns allowed = true and raises nothing to its caller.
C20_FailsOpen ==
    (rl_last.taken /\ rl_last.fault.op \in {"incr", "expire", "ttl"}) =>
        /\ ~rl_last.raised
        /\ rl_last.allowed

\* the increment raised and the call returned (True, 0, 60)
C20_Witness ==
    /\ rl_last.taken
    /\ rl_last.fault.op = "incr"
    /\ ~rl_last.raised
    /\ rl_last.allowed
    /\ rl_last.remaining = 0
    /\ rl_last.reset = 60
    /\ rl_last.k = 2

\* C21: the identity used for rate limiting is "user:" + subject when a bearer
\* credential is present and decodes to a subject, and in every other case
\* "ip:" + the first X-Forwarded-For entry if present, else the remote address;
\* an unverifiable credential never makes check_rate_limit raise.
C21_IdentityOfRequest ==
    rl_last.taken =>
        LET req == rl_last.request
            present == req.authorization # NoHeader /\ Len(req.authorization) >= 2
            decodes == present /\ ~IsNone(verify_token(req.authorization[2]))
            address == IF req.forwarded # NoHeader
                       THEN strip(req.forwarded[1]) ELSE req.remote
        IN  /\ rl_last.fault.op # "get_client_id"
            /\ rl_last.client_id =
                  IF decodes
                  THEN <<"user:">> \o verify_token(req.authorization[2]).sub
                  ELSE <<"ip:">> \o address

\* C22: the limit applied to a request is the endpoint-specific override when
\* the path has one, regardless of the method; otherwise the default of its
\* HTTP method; otherwise the global fallback of 60.
C22_LimitOfRequest ==
    (rl_last.taken /\ rl_last.fault.op # "get_client_id") =>
        LET path == rl_last.request.path
            method == rl_last.request.method
        IN  /\ path \in DOMAIN endpoint_limits =>
                  rl_last.limit = endpoint_limits[path]
            /\ (path \notin DOMAIN endpoint_limits /\ method \in DOMAIN default_limits) =>
                  rl_last.limit = default_limits[method]
            /\ (path \notin DOMAIN endpoint_limits /\ method \notin DOMAIN default_limits) =>
                  rl_last.limit = 60

\* a GET of /api/chain/execute was limited by the override 30, not by GET's 120
C22_Witness ==
    /\ rl_last.taken
    /\ rl_last.fault.op # "get_client_id"
    /\ rl_last.request.path = "/api/chain/execute"
    /\ rl_last.request.method = "GET"
    /\ rl_last.limit = 30
    /\ default_limits["GET"] = 120

\* C23: the 60-second expiry of a counter is set exactly when an increment
\* returns 1 and by no other call, and the call that is the first of its window
\* is counted as 1 and allowed with remaining = limit - 1.
C23_ExpirySetByFirstIncrement ==
    [][(rl_last' # rl_last /\ rl_last'.fault.op # "get_client_id") =>
          LET key == rl_last'.key
              first == rl_counters[key] = 0
          IN  /\ first <=> rl_expiry' # rl_expiry
              /\ first =>
                    /\ rl_counters'[key] = 1
                    /\ key \in DOMAIN rl_expiry'
                    /\ rl_expiry'[key] = window
                    /\ ~rl_last'.raised
                    /\ rl_last'.allowed
                    /\ rl_last'.remaining = rl_last'.limit - 1]_vars

\* C24: get_flag(key, default) returns the value last stored by set_flag for
\* that key, and the supplied default when the key has never been set.
C24_GetFlagOrDefault ==
    op_last.op = "get_flag" =>
        op_last.result =
            IF op_last.key \in DOMAIN system_flags THEN system_flags[op_last.key]
            ELSE op_last.default

\* C25: get_active_agents returns a copy of the registered set: mutating the
\* returned set does not change the registered agents, and later
\* register_agent / unregister_agent calls do not change a set already returned.
C25_ActiveAgentsCopied ==
    [][/\ op_last'.op = "caller_mutates" => active_agents' = active_agents
       /\ (agents_returned.taken /\ op_last'.op \in {"register_agent", "unregister_agent"}) =>
             agents_returned'.agents = agents_returned.agents]_vars

\* the returned set holds x and what its caller added, after x was unregistered
C25_Witness ==
    /\ op_last.op = "unregister_agent"
    /\ active_agents = {}
    /\ agents_returned.taken
    /\ agents_returned.agents = {"x", "intruder"}

\* C26: every mutation of, and every read that inspects, the safe-mode flag,
\* the flags map or the registered-agent set happens while the lock is held.
C26_StateTouchedUnderLock ==
    op_last.op \in {"is_safe", "enable_safe_mode", "disable_safe_mode", "set_flag",
                    "get_flag", "register_agent", "unregister_agent",
                    "get_active_agents", "_init_mycocore"} =>
        op_last.lock_held

\* C27: all constructions, concurrent ones included, yield the same instance
\* and its state is initialised exactly once: a construction after
\* enable_safe_mode, set_flag or register_agent resets none of the fields.
C27_OneInstanceInitialisedOnce ==
    /\ [](\A t, u \in Threads :
            (tref[t] # NoRef /\ tref[u] # NoRef) => tref[t] = tref[u])
    /\ [](initialised <= 1)
    /\ [][(initialised >= 1 /\ tpc' # tpc) =>
            UNCHANGED <<safe_mode, system_flags, active_agents>>]_vars

\* thread 2 got from Mycocore() the instance thread 1 created, with safe mode
\* on, a flag set and an agent registered
C27_Witness ==
    /\ op_last.op = "return"
    /\ op_last.thread = 2
    /\ tref[1] = <<"Mycocore", 1>>
    /\ tref[2] = <<"Mycocore", 1>>
    /\ initialised = 1
    /\ safe_mode
    /\ "k1" \in DOMAIN system_flags
    /\ active_agents = {"x"}

\* C29: no coordinator operation can deadlock: every call of a thread returns,
\* and no thread waits for the lock it holds.
C29_EveryCallReturns ==
    /\ [](\A t \in Threads :
            lock_owner = t => tpc[t] \in {"check", "create", "init", "return"})
    /\ \A t \in Threads : (tpc[t] # "idle") ~> (tpc[t] = "idle")

\* thread 2 waits for the lock while thread 1 runs _init_mycocore under it
C29_Witness ==
    /\ lock_owner = 1
    /\ tpc[1] = "init"
    /\ tpc[2] = "acquire"

\* C28: a safe-mode toggle takes effect for a chain that is already running:
\* a step that starts after safe mode was enabled yields the halt output and
\* invokes no handler, the entries of the steps before it are unchanged, and
\* a step that starts after safe mode was disabled is dispatched.
C28_ToggleTakesEffectMidRun ==
    [][/\ pc # "idle" =>
            /\ Len(history') >= Len(history)
            /\ SubSeq(history', 1, Len(history)) = history
       /\ (pc = "step" /\ calls' # calls) =>
            IF lastOp = "enable"
            THEN /\ history' = Append(history, [agent |-> <<"mycocore">>,
                                                 input |-> get(chain[idx], "prompt"),
                                                 output |-> HaltOutput])
                 /\ pc' \notin {"ask", "model"}
                 /\ ~log'[Len(log')].looked
                 /\ ~log'[Len(log')].asked
                 /\ ~log'[Len(log')].called
            ELSE \/ pc' = "ask"
                 \/ pc' = "idle"
                 \/ /\ Len(history') = Len(history) + 1
                    /\ log'[Len(log')].operational
                    /\ "output" \in DOMAIN history'[Len(history')] =>
                          history'[Len(history')].output # HaltOutput]_vars

\* step 1 of a run got its handler's reply, safe mode was enabled, and step 2
\* of the same run was halted
C28_Witness ==
    /\ pc = "ret"
    /\ Len(chain) = 2
    /\ Len(history) = base + 2
    /\ log[base + 1].reply \in Replies
    /\ history[base + 1].output = log[base + 1].reply
    /\ lastGate = "enable"
    /\ history[base + 2].output = HaltOutput
    /\ ~log[base + 2].asked

C31_ToggleFlips ==
    (\A r \in ToggleRequests : tg_pc[r] \in {"new", "done"}) =>
        (safe_mode = (toggles % 2 = 1))

\* C32: at most one heartbeat task is running for any client id at any time,
\* and every transport ever registered is either the current session of its id
\* or has been closed.
C32_OneSessionPerId ==
    /\ \A c \in Clients :
          Cardinality({t \in Sockets :
                          /\ wsClient[t] = c
                          /\ taskPc[t] \notin {"none", "done", "cancelled", "cleaned", "raised"}}) <= 1
    /\ \A w \in Sockets :
          wsState[w] = "open" =>
              /\ wsClient[w] \in DOMAIN active_connections
              /\ active_connections[wsClient[w]] = w

\* C33: if the transport handshake raises during connect(id), connect raises
\* nothing, registers no session, stats or heartbeat task for the failed
\* transport, and does not remove or close a different, already live session
\* registered under the same id.
C33_FailedHandshakeIsHarmless ==
    [][\A w \in Sockets :
          /\ wsState'[w] = "new" =>
                /\ routePc'[w] # "raised"
                /\ \A c \in DOMAIN active_connections' : active_connections'[c] # w
                /\ \A c \in DOMAIN heartbeat_tasks' : heartbeat_tasks'[c] # w
                /\ taskPc'[w] = "none"
          /\ (wsState[w] = "new" /\ routePc[w] = "closing" /\ routePc'[w] # "closing") =>
                UNCHANGED <<active_connections, connection_stats, heartbeat_tasks,
                            wsState, taskCancel>>]_vars

\* C34: with the store object the module wires in, the fail-open path is taken
\* only when the store is unreachable: the store provides the increment,
\* expire and ttl operations, so a call beyond the limit is denied.
C34_StoreProvidesOperations ==
    (rl_last.taken /\ rl_last.fault.op # "get_client_id") =>
        /\ rl_last.fault.op # "none" => rl_last.fault.type = "ConnectionError"
        /\ rl_last.k > rl_last.limit => (~rl_last.raised /\ ~rl_last.allowed)

C37_AtMostLimitAllowed ==
    b_allowed <= BurstLimit

\* a call the store counted and answered, in a window that is still open
Counted(call) ==
    /\ call.taken
    /\ call.fault.op = "none"
    /\ call.reset >= 0

C16_OverlappingDisconnectsDoNotRaise ==
    \A p \in Procs : ProcPc(p) # "raised"

\* C17: a session connected or disconnected while broadcast is suspended in a
\* send does not make broadcast raise: it completes, has attempted every session
\* that is not excluded and stayed live for the whole call, and has
\* disconnected every session whose send failed.
C17_BroadcastSerialized ==
    /\ bPc # "raised"
    /\ bPc = "returned" =>
          /\ \A w \in LiveThroughout : ~Excluded(w) => bTry[w] # "none"
          /\ \A w \in Sockets : bTry[w] = "failed" => ~Live(w)

ChainInit ==
    /\ safe_mode = FALSE
    /\ lastOp = "init"
    /\ history = <<>>
    /\ chain = <<>>
    /\ idx = 1
    /\ pc = "idle"
    /\ cur = NoCur
    /\ returned = NoReturn
    /\ base = 0
    /\ calls = <<>>
    /\ log = <<>>
    /\ lastGate = "none"
    /\ haltedAll = FALSE

ConnInit ==
    /\ active_connections = EmptyDict
    /\ connection_stats = EmptyDict
    /\ heartbeat_tasks = EmptyDict
    /\ wsClient = [w \in Sockets |-> "-"]
    /\ wsState = [w \in Sockets |-> "new"]
    /\ routePc = [w \in Sockets |-> "idle"]
    /\ taskPc = [w \in Sockets |-> "none"]
    /\ taskCancel = [w \in Sockets |-> FALSE]
    /\ callWs = [p \in Procs |-> 0]
    /\ closeRaised = FALSE
    /\ nextWs = 0

BcastInit ==
    /\ bPc = "idle"
    /\ bExclude = {}
    /\ bStart = EmptyDict
    /\ bSeen = {}
    /\ disconnected = <<>>
    /\ bCur = "-"
    /\ bWs = 0
    /\ bErr = "none"
    /\ bTry = [w \in Sockets |-> "none"]

ViewInit == stats_returned = [taken |-> FALSE, total_connections |-> 0, connections |-> EmptyDict]

RateInit ==
    /\ rl_counters = [key \in RateKeys |-> 0]
    /\ rl_expiry = EmptyDict
    /\ rl_calls = [key \in RateKeys |-> 0]
    /\ rl_sent = [x \in Senders |-> 0]
    /\ rl_last = NoCall
    /\ rl_store = RedisCacheMethods

\* the class as its definition leaves it: no instance, the lock free
MycoInit ==
    /\ instance = NoRef
    /\ lock_owner = 0
    /\ system_flags = EmptyDict
    /\ active_agents = {}
    /\ tpc = [t \in Threads |-> "idle"]
    /\ tref = [t \in Threads |-> NoRef]
    /\ initialised = 0
    /\ agents_returned = [taken |-> FALSE]
    /\ op_last = [op |-> "none"]

BurstInit ==
    /\ b_pc = [c \in Coroutines |-> "idle"]
    /\ b_cur = [c \in Coroutines |-> 0]
    /\ b_made = 0
    /\ b_allowed = 0
    /\ b_ret = [c \in Coroutines |-> NoResult]
    /\ mw_out = [taken |-> FALSE]

ToggleInit ==
    /\ tg_pc = [r \in ToggleRequests |-> "new"]

Init ==
    /\ ChainInit /\ ConnInit /\ BcastInit /\ ViewInit /\ RateInit /\ MycoInit
    /\ ToggleInit /\ BurstInit

\* the limiter on a store that provides the operations it calls
StoreInit ==
    /\ ChainInit /\ ConnInit /\ BcastInit /\ ViewInit /\ MycoInit /\ ToggleInit
    /\ BurstInit
    /\ rl_counters = [key \in RateKeys |-> 0]
    /\ rl_expiry = EmptyDict
    /\ rl_calls = [key \in RateKeys |-> 0]
    /\ rl_sent = [x \in Senders |-> 0]
    /\ rl_last = NoCall
    /\ rl_store = CounterStoreMethods

ChainNext ==
    \/ NewExecutor
    \/ RunStart
    \/ ExecuteStep
    \/ AgentAsk
    \/ HandlePromptReturn
    \/ HandlePromptRaise
    \/ RunReturn
    \/ EnableSafeMode
    \/ DisableSafeMode

ChainSpec == Init /\ [][ChainNext]_vars

ConnNext ==
    \/ \E c \in Clients : RouteStart(c)
    \/ \E w \in Sockets : ConnectAccepted(w)
    \/ \E w \in Sockets : ConnectFailed(w)
    \/ \E w \in Sockets : RouteDisconnect(w)
    \/ \E p \in Procs : DisconnectFinish(p)
    \/ \E t \in Sockets : HeartbeatIterate(t)
    \/ \E t \in Sockets : HeartbeatSent(t)
    \/ \E t \in Sockets : HeartbeatFailed(t)

ConnSpec == Init /\ [][ConnNext]_vars

\* the event loop resumes every coroutine whose await is over: a pending
\* close() ends, a heartbeat's sleep ends and its send returns or raises
ConnFairSpec ==
    /\ ConnSpec
    /\ \A p \in Procs : WF_vars(DisconnectFinish(p))
    /\ \A t \in Sockets : WF_vars(HeartbeatIterate(t))
    /\ \A t \in Sockets : WF_vars(HeartbeatSent(t) \/ HeartbeatFailed(t))

BcastNext ==
    \/ ConnNext
    \/ \E ex \in {{}, {"a"}} : BroadcastStart(ex)
    \/ BroadcastSent
    \/ BroadcastSendFailed
    \/ BroadcastDisconnectFinish

BcastSpec == Init /\ [][BcastNext]_vars

StatsNext ==
    \/ ConnNext
    \/ GetConnectionStats

StatsSpec == Init /\ [][StatsNext]_vars

RateNext ==
    \E req \in Requests : CheckRateLimit(req)

RateSpec == Init /\ [][RateNext]_vars

StoreNext ==
    \/ \E req \in {q \in Requests : q.authorization = NoHeader /\ q.method # "PATCH"} :
          CheckRateLimit(req)
    \/ \E key \in RateKeys : WindowExpires(key)

StoreSpec == StoreInit /\ [][StoreNext]_vars

\* the calls as the module runs them, on the object it wires in
BurstNext ==
    \/ \E c \in Coroutines : BurstEnter(c)
    \/ \E c \in Coroutines : BurstIncr(c)
    \/ \E c \in Coroutines : MwCallNext(c)
    \/ \E c \in Coroutines : MwRespond(c)
    \/ \E c \in Coroutines : MwCallNextRaises(c)

BurstSpec == Init /\ [][BurstNext]_vars

\* the calls on a store that provides the operations
StoreBurstNext ==
    \/ BurstNext
    \/ \E c \in Coroutines : BurstExpire(c)
    \/ \E c \in Coroutines : BurstTtl(c)
    \/ \E c \in Coroutines : MwDeny(c)

StoreBurstSpec == StoreInit /\ [][StoreBurstNext]_vars

ToggleNext ==
    \/ \E r \in ToggleRequests : ToggleCheck(r)
    \/ \E r \in ToggleRequests : ToggleAct(r)

ToggleSpec == Init /\ [][ToggleNext]_vars

MycoNext ==
    \/ \E t \in Threads : Construct(t)
    \/ \E t \in Threads : NewAcquire(t)
    \/ \E t \in Threads : NewCheck(t)
    \/ \E t \in Threads : NewCreate(t)
    \/ \E t \in Threads : InitMycocore(t)
    \/ \E t \in Threads : NewReturn(t)
    \/ \E t \in Threads : IsSafe(t)
    \/ \E t \in Threads : CallEnableSafeMode(t)
    \/ \E t \in Threads : CallDisableSafeMode(t)
    \/ \E t \in Threads, key \in FlagKeys, value \in {<<"v1">>, <<"v2">>} :
          SetFlag(t, key, value)
    \/ \E t \in Threads, key \in FlagKeys, default \in {None, <<"d">>} :
          GetFlag(t, key, default)
    \/ \E t \in Threads, name \in AgentNames : RegisterAgent(t, name)
    \/ \E t \in Threads, name \in AgentNames : UnregisterAgent(t, name)
    \/ \E t \in Threads : GetActiveAgents(t)
    \/ \E t \in Threads, names \in SUBSET (AgentNames \cup Intruders) :
          CallerMutates(t, names)

MycoSpec == Init /\ [][MycoNext]_vars

\* the scheduler runs every thread that can run, and a thread waiting for the
\* lock gets it when it is released again and again
MycoFairSpec ==
    /\ MycoSpec
    /\ \A t \in Threads : SF_vars(NewAcquire(t))
    /\ \A t \in Threads :
          WF_vars(NewCheck(t) \/ NewCreate(t) \/ InitMycocore(t) \/ NewReturn(t))

====
